---- MODULE Spec2Model ----
(***************************************************************************)
(* Framecast (src/src/index.ts): two endpoints, A and B, each the target   *)
(* of the other, exchanging superjson-encoded envelopes with postMessage.  *)
(* A third window, X, posts foreign traffic to both.                       *)
(*                                                                         *)
(* One action per task of the event loop: an application call of the       *)
(* public API (on, off, broadcast, call), a message event                  *)
(* (handlePostedMessage with everything it calls synchronously), a timer   *)
(* callback, the continuation of handleFunctionCall after an awaited       *)
(* listener settles, and the clock.                                        *)
(***************************************************************************)
EXTENDS Integers, Sequences, FiniteSets, TLC

(***************************************************************************)
(* Bounds of the model.                                                    *)
(***************************************************************************)
MaxCalls == 2        \* call() invocations in one behaviour
MaxNow == 2          \* last value of the millisecond clock
MaxRegs == 3         \* on()/off() invocations in one behaviour
MaxBroadcasts == 1   \* broadcast() invocations in one behaviour
MaxForeign == 1      \* messages posted by the foreign window X
MaxDups == 1         \* functionResult events the transport delivers twice

\* functionTimeoutMs: 10000 of the default config.
DefaultFunctionTimeoutMs == 10000

(***************************************************************************)
(* The windows.                                                            *)
(***************************************************************************)
Endpoints == {"A", "B"}

\* constructor: this.target = target; A and B are built facing each other.
Target(e) == IF e = "A" THEN "B" ELSE "A"

\* The origin of the document of a window (event.origin of what it posts).
WindowOrigin(w) ==
  CASE w = "A" -> "https://a.test"
    [] w = "B" -> "https://b.test"
    [] OTHER -> "https://x.test"

\* The application on A calls and broadcasts, the application on B
\* registers listeners; both endpoints run the same message handling.
Callers == {"A"}
Registrants == {"B"}

(***************************************************************************)
(* JavaScript values that travel in envelopes.                             *)
(***************************************************************************)
Undefined == [k |-> "undefined", n |-> 0, m |-> ""]
Num(i) == [k |-> "number", n |-> i, m |-> ""]
Err(msg) == [k |-> "Error", n |-> 0, m |-> msg]
NaN == [k |-> "NaN", n |-> 0, m |-> ""]

\* A string holding source text; n is the number literal the text applies its
\* function to.
Str(text, i) == [k |-> "string", n |-> i, m |-> text]

\* if (data.error): JavaScript truthiness.
Truthy(v) ==
  ~ \/ v.k = "undefined"
    \/ v.k = "null"
    \/ (v.k = "number" /\ v.n = 0)
    \/ v.k = "NaN"
    \/ (v.k = "string" /\ v.m = "")

Null == "<null>"          \* a config field left null
NoId == -1                \* an envelope without an id field
TypeMissing == "<none>"   \* an envelope without a type field
UndefinedMs == -1         \* functionTimeoutMs: undefined in the config passed

(***************************************************************************)
(* superjson: the text is a JSON tree plus the annotations that restore    *)
(* what JSON cannot hold (undefined, Error).                               *)
(***************************************************************************)
SJSerialize(v) ==
  CASE v.k = "undefined" ->
         [json |-> [k |-> "null", n |-> 0, m |-> ""], meta |-> "undefined"]
    [] v.k = "Error" ->
         [json |-> [k |-> "object", n |-> 0, m |-> v.m], meta |-> "Error"]
    [] v.k = "NaN" ->
         [json |-> [k |-> "string", n |-> 0, m |-> "NaN"], meta |-> "number"]
    [] OTHER -> [json |-> v, meta |-> ""]

SJDeserialize(t) ==
  CASE t.meta = "undefined" -> Undefined
    [] t.meta = "Error" -> Err(t.json.m)
    [] t.meta = "number" -> NaN
    [] OTHER -> t.json

\* superjson.stringify({ ...message, type, channel })
Stringify(obj) ==
  [kind |-> "superjson",
   type |-> obj.type,
   channel |-> obj.channel,
   id |-> obj.id,
   args |-> [i \in DOMAIN obj.args |-> SJSerialize(obj.args[i])],
   data |-> SJSerialize(obj.data),
   result |-> SJSerialize(obj.result),
   error |-> SJSerialize(obj.error)]

\* superjson.parse(event.data) as any; "throws" when the text is no superjson.
Parse(text) ==
  IF text.kind = "garbage"
    THEN [threw |-> TRUE, isNull |-> FALSE, type |-> TypeMissing,
          channel |-> Null, id |-> NoId, args |-> <<>>, data |-> Undefined,
          result |-> Undefined, error |-> Undefined]
    ELSE [threw |-> FALSE,
          isNull |-> text.kind = "null",
          type |-> text.type,
          channel |-> text.channel,
          id |-> text.id,
          args |-> [i \in DOMAIN text.args |-> SJDeserialize(text.args[i])],
          data |-> SJDeserialize(text.data),
          result |-> SJDeserialize(text.result),
          error |-> SJDeserialize(text.error)]

(***************************************************************************)
(* Listeners the application registers.                                    *)
(***************************************************************************)
FunctionNames == {"f", "g"}
FunctionKey(name) == "function:" \o name
FunctionKeys == {FunctionKey(n) : n \in FunctionNames}

\* A dispatch that takes every type it does not know for a remote call.
StartsWithFunction_AnyType(type) == TRUE

\* eventType.startsWith('function:')
StartsWithFunction(type) == \E n \in FunctionNames \cup {"evaluate"} : type = FunctionKey(n)

EvaluateKey == FunctionKey("evaluate")

FunctionListeners == {"double", "slow", "raise", "raiseZero"}
BroadcastListeners == {"L1", "L2", "Lthrow"}

\* A FunctionEventListener that is still suspended when the task that
\* invoked it ends.
Suspends(l) == l = "slow"

\* eval(fn) of the listener the constructor registers for function:evaluate:
\* the value of the source text, or fn itself when it is no string.
Eval(fn) == IF fn.k = "string" THEN Num(fn.n + 1) ELSE fn

\* What a FunctionEventListener makes of its arguments: double is
\* async x => 2 * x, slow is x => later(Number(x) + 1), raise throws an Error,
\* raiseZero throws 0, evaluate is the constructor's async fn => eval(fn).
\* listener.apply(this, args) with no args passes undefined.
Outcome(l, args) ==
  LET x == IF Len(args) >= 1 THEN args[1] ELSE Undefined
  IN CASE l = "double" ->
            [threw |-> FALSE, value |-> IF x.k = "number" THEN Num(2 * x.n) ELSE NaN]
       [] l = "slow" ->
            [threw |-> FALSE, value |-> IF x.k = "number" THEN Num(x.n + 1) ELSE NaN]
       [] l = "raise" -> [threw |-> TRUE, value |-> Err("boom")]
       [] l = "evaluate" -> [threw |-> FALSE, value |-> Eval(x)]
       [] OTHER -> [threw |-> TRUE, value |-> Num(0)]

\* A BroadcastEventListener that raises.
Throws(l) == l = "Lthrow"

\* Set.prototype.add / delete: a Set keeps insertion order.
Range(s) == {s[i] : i \in DOMAIN s}
SetAdd(s, x) == IF x \in Range(s) THEN s ELSE Append(s, x)
SetDelete(s, x) == SelectSeq(s, LAMBDA y : y # x)
IndexOf(s, x) == IF x \in Range(s) THEN CHOOSE i \in DOMAIN s : s[i] = x ELSE 0

(***************************************************************************)
(* State.                                                                  *)
(***************************************************************************)
VARIABLES
  now,        \* Date.now(), the clock setTimeout runs on
  config,     \* config[e]: this.config
  listeners,  \* listeners[e]: this.listeners, event key -> Set in insertion order
  pendingFunctionCalls,  \* pendingFunctionCalls[e]: id -> {timeout, resolve, reject}
  timers,     \* timers[e]: handles of the armed timers of e's window, oldest first
  calls,      \* the promises call() returned, in the order of the calls
  inbox,      \* inbox[e]: message events queued for e's window
  running,    \* running[e]: handleFunctionCall invocations awaiting a listener
  left,       \* what the applications and the environment may still do
  last        \* what the latest task did

vars == <<now, config, listeners, pendingFunctionCalls, timers, calls, inbox,
          running, left, last>>

\* get origin(): this.config.origin ?? '*'
Origin(e) == IF config[e].origin = Null THEN "*" ELSE config[e].origin

\* get channel(): `__framecast${this.config.channel ? `_${this.config.channel}` : ''}`
ChannelOf(c) == "__framecast" \o (IF c # Null /\ c # "" THEN "_" \o c ELSE "")
Channel(e) == ChannelOf(config[e].channel)

(***************************************************************************)
(* Envelopes, the transport and the promises.                              *)
(***************************************************************************)
\* The fields an envelope may carry besides type and channel.
NoFields ==
  [id |-> NoId, args |-> <<>>, data |-> Undefined, result |-> Undefined,
   error |-> Undefined]

\* For the properties: the broadcast listeners registered on window w when a
\* broadcast envelope is posted to it.
Registered(w, type) ==
  IF type = "broadcast" /\ "broadcast" \in DOMAIN listeners[w]
    THEN listeners[w]["broadcast"] ELSE <<>>

\* postMessage(type, message):
\*   this.target.postMessage(superjson.stringify({...message, type, channel}), this.origin)
\* The browser queues the event on the target window when the target origin
\* given is '*' or the origin of the target's document. req names the call
\* the envelope belongs to (0: none); req and regd are not part of the message.
PostMessage(box, e, type, message, req) ==
  LET text == Stringify([type |-> type, channel |-> Channel(e)] @@ message)
      event == [data |-> text, origin |-> WindowOrigin(e), req |-> req,
                regd |-> Registered(Target(e), type)]
  IN IF Origin(e) = "*" \/ Origin(e) = WindowOrigin(Target(e))
       THEN [box EXCEPT ![Target(e)] = Append(@, event)]
       ELSE box

\* resolve(value) / reject(error) of the promise of call c: the first one
\* settles the promise, a later one changes nothing.
Settle(cs, c, state, value) ==
  IF cs[c].state = "pending"
    THEN [cs EXCEPT ![c].state = state, ![c].value = value, ![c].settles = @ + 1]
    ELSE [cs EXCEPT ![c].settles = @ + 1]

\* What happens first to a call: its timer firing, or its peer's
\* functionResult being dispatched at its endpoint.
NoteFirst(cs, c, what) ==
  IF c \in DOMAIN cs /\ cs[c].first = "none"
    THEN [cs EXCEPT ![c].first = what]
    ELSE cs

\* clearPendingFunctionCall that clears the timer and forgets to delete the
\* entry.
ClearPendingFunctionCall_KeepsEntry(st, id) ==
  IF id \in DOMAIN st.pending
    THEN LET pendingCall == st.pending[id]
         IN [pending |-> st.pending,
             timers |-> SetDelete(st.timers, pendingCall.timeout),
             calls |-> [st.calls EXCEPT ![pendingCall.timeout].cleared = @ + 1]]
    ELSE st

\* clearPendingFunctionCall(id) on st = [pending, timers, calls] of one endpoint.
ClearPendingFunctionCall(st, id) ==
  IF id \in DOMAIN st.pending
    THEN LET pendingCall == st.pending[id]
         IN [pending |-> [i \in DOMAIN st.pending \ {id} |-> st.pending[i]],
             timers |-> SetDelete(st.timers, pendingCall.timeout),
             calls |-> [st.calls EXCEPT ![pendingCall.call].removed = @ + 1,
                                        ![pendingCall.timeout].cleared = @ + 1]]
    ELSE st

\* What a task did, for the properties: the listeners it invoked with their
\* argument, the envelopes it posted, the calls it settled, whether it
\* raised out of the task; for a message event, where it came from and the
\* broadcast listeners registered when it was posted.
Did(op, e) ==
  [op |-> op, e |-> e, type |-> TypeMissing, id |-> NoId, data |-> Undefined,
   accepted |-> FALSE, req |-> 0, regd |-> <<>>, from |-> "",
   invoked |-> <<>>, sent |-> <<>>, settled |-> <<>>, threw |-> FALSE]

\* For the properties: the listeners the responder invoked for call c, and
\* the functionResult it posted for it, with how the handling ended.
NoteInvoked(cs, c, ls) ==
  IF c \in DOMAIN cs THEN [cs EXCEPT ![c].invoked = @ \o ls] ELSE cs

NoteReply(cs, c, how, message) ==
  IF c \in DOMAIN cs
    THEN [cs EXCEPT ![c].replies = Append(@, [how |-> how, message |-> message])]
    ELSE cs

(***************************************************************************)
(* Listener registry: on, off.                                             *)
(***************************************************************************)
\* on() without the "only allow one listener per function" check.
on_WithoutSingleListenerCheck(L, eventType, listener) ==
  LET L1 == IF eventType \in DOMAIN L THEN L ELSE (eventType :> <<>>) @@ L
  IN [threw |-> FALSE,
      listeners |-> [L1 EXCEPT ![eventType] = SetAdd(@, listener)]]

\* on(eventType, listener) on the registry L: [threw, listeners].
on(L, eventType, listener) ==
  LET L1 == IF eventType \in DOMAIN L THEN L ELSE (eventType :> <<>>) @@ L
  IN IF StartsWithFunction(eventType) /\ Len(L1[eventType]) # 0
       THEN [threw |-> TRUE, listeners |-> L1]
       ELSE [threw |-> FALSE,
             listeners |-> [L1 EXCEPT ![eventType] = SetAdd(@, listener)]]

\* off(eventType, listener) on the registry L.
off(L, eventType, listener) ==
  IF eventType \in DOMAIN L
    THEN [L EXCEPT ![eventType] = SetDelete(@, listener)]
    ELSE L

\* The Set iterator of a suspended handleFunctionCall after delete(listener):
\* an entry removed before the iterator's position moves the position back.
IteratorAfterDelete(r, L, eventType, listener) ==
  IF /\ r.eventType = eventType
     /\ eventType \in DOMAIN L
     /\ IndexOf(L[eventType], listener) \in 1..r.pos
    THEN [r EXCEPT !.pos = @ - 1]
    ELSE r

\* The keys the application on B registers listeners for.
EventKeys == {"broadcast", EvaluateKey} \cup FunctionKeys

ListenersFor(eventType) ==
  IF eventType = "broadcast" THEN BroadcastListeners ELSE FunctionListeners

On(e, eventType, listener) ==
  /\ e \in Registrants
  /\ left.regs > 0
  /\ eventType = EvaluateKey => left.kind = "evaluate"
  /\ LET r == on(listeners[e], eventType, listener)
     IN /\ listeners' = [listeners EXCEPT ![e] = r.listeners]
        /\ last' = [Did("on", e) EXCEPT !.type = eventType, !.threw = r.threw]
  /\ left' = [left EXCEPT !.regs = @ - 1]
  /\ UNCHANGED <<now, config, pendingFunctionCalls, timers, calls, inbox, running>>

Off(e, eventType, listener) ==
  /\ e \in Registrants
  /\ eventType \in DOMAIN listeners[e]
  /\ listener \in Range(listeners[e][eventType])
  /\ left.regs > 0
  /\ listeners' = [listeners EXCEPT ![e] = off(@, eventType, listener)]
  /\ running' = [running EXCEPT ![e] =
       [i \in DOMAIN @ |-> IteratorAfterDelete(@[i], listeners[e], eventType, listener)]]
  /\ last' = [Did("off", e) EXCEPT !.type = eventType]
  /\ left' = [left EXCEPT !.regs = @ - 1]
  /\ UNCHANGED <<now, config, pendingFunctionCalls, timers, calls, inbox>>

(***************************************************************************)
(* broadcast, call, the timer of a call.                                   *)
(***************************************************************************)
DataValues == {Num(1)}
ArgValues == {Num(5)}

\* broadcast(data)
Broadcast(e, data) ==
  /\ e \in Callers
  /\ left.broadcasts > 0
  /\ inbox' = PostMessage(inbox, e, "broadcast", [NoFields EXCEPT !.data = data], 0)
  /\ last' = Did("idle", "A")
  /\ left' = [left EXCEPT !.broadcasts = @ - 1]
  /\ UNCHANGED <<now, config, listeners, pendingFunctionCalls, timers, calls, running>>

\* window.setTimeout(handler, timeout): a timeout that is no number is 0.
Delay(timeout) == IF timeout = UndefinedMs THEN 0 ELSE timeout

\* call() with the test of config.functionTimeoutMs left out.
TimeoutUnset_NeverChecked(e) == FALSE

\* if (!this.config.functionTimeoutMs): 0 and undefined are falsy.
TimeoutUnset(e) ==
  config[e].functionTimeoutMs = UndefinedMs \/ config[e].functionTimeoutMs = 0

NewCall(e, functionName, args, id) ==
  [owner |-> e, functionName |-> functionName, args |-> args, id |-> id,
   due |-> now + Delay(config[e].functionTimeoutMs), sent |-> TRUE,
   state |-> "pending", value |-> Undefined,
   settles |-> 0, cleared |-> 0, removed |-> 0, first |-> "none",
   invoked |-> <<>>, replies |-> <<>>]

\* call(functionName, ...args); the promise it returns is calls[c].
Call(e, functionName, args) ==
  /\ e \in Callers
  /\ left.calls > 0
  /\ now < MaxNow
  /\ LET id == now
         c == Len(calls) + 1
     IN IF TimeoutUnset(e)
          THEN /\ calls' = Append(calls,
                     [NewCall(e, functionName, args, id) EXCEPT
                        !.sent = FALSE, !.state = "rejected", !.settles = 1,
                        !.value = Err("Framecast.call() requires a config.functionTimeoutMs to be set")])
               /\ UNCHANGED <<timers, pendingFunctionCalls, inbox>>
          ELSE /\ timers' = [timers EXCEPT ![e] = Append(@, c)]
               /\ pendingFunctionCalls' = [pendingFunctionCalls EXCEPT ![e] =
                     (id :> [timeout |-> c, call |-> c]) @@ @]
               /\ inbox' = PostMessage(inbox, e, FunctionKey(functionName),
                     [NoFields EXCEPT !.id = id, !.args = args], c)
               /\ calls' = Append(calls, NewCall(e, functionName, args, id))
  /\ left' = [left EXCEPT !.calls = @ - 1]
  /\ last' = Did("idle", "A")
  /\ UNCHANGED <<now, config, listeners, running>>

\* fn.toString() of the functions the application passes to evaluate().
FnStrings == {"x => x + 1"}

\* `(${fnString})(${argsString})` with argsString the JSON of the arguments.
CalledFnString(fnString, args) ==
  Str("(" \o fnString \o ")(" \o ToString(args[1].n) \o ")", args[1].n)

\* evaluate(fn, ...args): return this.call('evaluate', calledFnString)
Evaluate(e, fnString, args) ==
  /\ left.kind = "evaluate"
  /\ Call(e, "evaluate", <<CalledFnString(fnString, args)>>)

TimeoutError(c) ==
  Err(calls[c].functionName \o " timed out after "
      \o ToString(config[calls[c].owner].functionTimeoutMs) \o "ms")

\* The callback call() gave to window.setTimeout, for the oldest armed timer
\* of e's window once it is due (all timers of e have the same delay).
TimerFires(e) ==
  /\ timers[e] # <<>>
  /\ LET h == Head(timers[e])
         st == ClearPendingFunctionCall(
                 [pending |-> pendingFunctionCalls[e], timers |-> Tail(timers[e]),
                  calls |-> NoteFirst(calls, h, "timeout")],
                 calls[h].id)
     IN /\ calls[h].due <= now
        /\ pendingFunctionCalls' = [pendingFunctionCalls EXCEPT ![e] = st.pending]
        /\ timers' = [timers EXCEPT ![e] = st.timers]
        /\ calls' = Settle(st.calls, h, "rejected", TimeoutError(h))
        /\ last' = [Did("timer", e) EXCEPT !.req = h, !.settled = <<h>>]
  /\ UNCHANGED <<now, config, listeners, inbox, running, left>>

\* A millisecond passes.
Tick ==
  /\ now < MaxNow
  /\ now' = now + 1
  /\ last' = Did("idle", "A")
  /\ UNCHANGED <<config, listeners, pendingFunctionCalls, timers, calls, inbox,
                 running, left>>

(***************************************************************************)
(* Inbound dispatch.                                                       *)
(***************************************************************************)
\* handleBroadcast(data): the listeners invoked, in order, up to and
\* including the first that raises (the loop has no try).
RECURSIVE BroadcastRun(_, _)
BroadcastRun(set, i) ==
  IF i > Len(set) THEN <<>>
  ELSE IF Throws(set[i]) THEN <<set[i]>>
  ELSE <<set[i]>> \o BroadcastRun(set, i + 1)

\* The loop of handleFunctionCall over the Set of listeners from iterator
\* position pos on, up to the first listener that stays suspended, that
\* raises, or the end of the Set. result is the `let result` of the code.
RECURSIVE RunListeners(_, _, _, _)
RunListeners(set, args, pos, result) ==
  IF pos >= Len(set)
    THEN [status |-> "returned", value |-> result, pos |-> pos,
          listener |-> "", invoked |-> <<>>]
    ELSE LET l == set[pos + 1]
         IN IF Suspends(l)
              THEN [status |-> "awaiting", value |-> result, pos |-> pos + 1,
                    listener |-> l, invoked |-> <<l>>]
              ELSE IF Outcome(l, args).threw
                THEN [status |-> "threw", value |-> Outcome(l, args).value,
                      pos |-> pos + 1, listener |-> l, invoked |-> <<l>>]
                ELSE LET r == RunListeners(set, args, pos + 1, Outcome(l, args).value)
                     IN [r EXCEPT !.invoked = <<l>> \o @]

WithArg(ls, arg) == [i \in DOMAIN ls |-> [listener |-> ls[i], arg |-> arg]]

\* handleBroadcast(data)
HandleBroadcast(e, data, did) ==
  LET set == IF "broadcast" \in DOMAIN listeners[e]
               THEN listeners[e]["broadcast"] ELSE <<>>
      ran == BroadcastRun(set, 1)
  IN /\ last' = [did EXCEPT !.invoked = WithArg(ran, data),
                            !.threw = (ran # <<>> /\ Throws(ran[Len(ran)]))]
     /\ UNCHANGED <<pendingFunctionCalls, timers, calls, running>>

\* handleFunctionResult(data)
HandleFunctionResult(e, data, did) ==
  IF data.id \in DOMAIN pendingFunctionCalls[e]
    THEN LET pendingCall == pendingFunctionCalls[e][data.id]
             st == ClearPendingFunctionCall(
                     [pending |-> pendingFunctionCalls[e], timers |-> timers[e],
                      calls |-> NoteFirst(calls, did.req, "result")],
                     data.id)
         IN /\ pendingFunctionCalls' = [pendingFunctionCalls EXCEPT ![e] = st.pending]
            /\ timers' = [timers EXCEPT ![e] = st.timers]
            /\ calls' = IF Truthy(data.error)
                          THEN Settle(st.calls, pendingCall.call, "rejected", data.error)
                          ELSE Settle(st.calls, pendingCall.call, "resolved", data.result)
            /\ last' = [did EXCEPT !.settled = <<pendingCall.call>>]
            /\ UNCHANGED running
    ELSE /\ calls' = NoteFirst(calls, did.req, "result")
         /\ last' = did
         /\ UNCHANGED <<pendingFunctionCalls, timers, running>>

\* A reply that leaves out the id of the request.
ReplyOf_WithoutId(r, id) ==
  IF r.status = "threw"
    THEN [NoFields EXCEPT !.error = r.value]
    ELSE [NoFields EXCEPT !.result = r.value]

\* The end of handleFunctionCall: postMessage('functionResult', {id, result})
\* or, from the catch, postMessage('functionResult', {id, error}).
ReplyOf(r, id) ==
  IF r.status = "threw"
    THEN [NoFields EXCEPT !.id = id, !.error = r.value]
    ELSE [NoFields EXCEPT !.id = id, !.result = r.value]

\* handleFunctionCall(eventType, id, args) up to its first suspension.
HandleFunctionCall(e, eventType, id, args, did, box) ==
  IF eventType \notin DOMAIN listeners[e] \/ Len(listeners[e][eventType]) = 0
    THEN LET message == [NoFields EXCEPT !.id = id,
                           !.error = Err("No listeners for " \o eventType)]
         IN /\ inbox' = PostMessage(box, e, "functionResult", message, did.req)
            /\ calls' = NoteReply(calls, did.req, "nolistener", message)
            /\ last' = [did EXCEPT !.sent = <<message>>]
            /\ UNCHANGED running
    ELSE LET r == RunListeners(listeners[e][eventType], args, 0, Undefined)
         IN IF r.status = "awaiting"
              THEN /\ running' = [running EXCEPT ![e] = Append(@,
                         [eventType |-> eventType, id |-> id, args |-> args,
                          listener |-> r.listener, pos |-> r.pos, req |-> did.req])]
                   /\ inbox' = box
                   /\ calls' = NoteInvoked(calls, did.req, r.invoked)
                   /\ last' = [did EXCEPT !.invoked = WithArg(r.invoked, args)]
              ELSE /\ inbox' = PostMessage(box, e, "functionResult", ReplyOf(r, id), did.req)
                   /\ calls' = NoteReply(NoteInvoked(calls, did.req, r.invoked),
                                         did.req, r.status, ReplyOf(r, id))
                   /\ last' = [did EXCEPT !.invoked = WithArg(r.invoked, args),
                                          !.sent = <<ReplyOf(r, id)>>]
                   /\ UNCHANGED running

\* if (this.origin !== '*' && event.origin !== this.origin) return;
OriginMismatch(e, event) == Origin(e) # "*" /\ event.origin # Origin(e)

\* handlePostedMessage without the channel check.
ChannelMismatch_NeverChecked(e, data) == FALSE

\* if (this.channel !== data.channel) return;
ChannelMismatch(e, data) == Channel(e) # data.channel

\* handlePostedMessage(event) for the oldest message event queued on e's window.
HandlePostedMessage(e) ==
  /\ inbox[e] # <<>>
  /\ LET event == Head(inbox[e])
         box == [inbox EXCEPT ![e] = Tail(@)]
         data == Parse(event.data)
         did == [Did("message", e) EXCEPT !.type = data.type, !.id = data.id,
                                          !.data = data.data, !.req = event.req,
                                          !.regd = event.regd,
                                          !.from = event.origin]
         dropped == /\ last' = did
                    /\ inbox' = box
                    /\ UNCHANGED <<pendingFunctionCalls, timers, calls, running>>
     IN IF data.threw THEN dropped
        ELSE IF OriginMismatch(e, event) THEN dropped
        ELSE IF data.isNull THEN dropped
        ELSE IF ChannelMismatch(e, data) THEN dropped
        ELSE IF data.type = "broadcast"
          THEN /\ HandleBroadcast(e, data.data, [did EXCEPT !.accepted = TRUE])
               /\ inbox' = box
        ELSE IF data.type = "functionResult"
          THEN /\ HandleFunctionResult(e, data, [did EXCEPT !.accepted = TRUE])
               /\ inbox' = box
        ELSE IF data.type = TypeMissing THEN dropped
        ELSE IF StartsWithFunction(data.type)
          THEN /\ HandleFunctionCall(e, data.type, data.id, data.args,
                                     [did EXCEPT !.accepted = TRUE], box)
               /\ UNCHANGED <<pendingFunctionCalls, timers>>
        ELSE /\ last' = [did EXCEPT !.accepted = TRUE]
             /\ inbox' = box
             /\ UNCHANGED <<pendingFunctionCalls, timers, calls, running>>
  /\ UNCHANGED <<now, config, listeners, left>>

\* handleFunctionCall resumes: the listener invocation i of e was awaiting
\* settles, the loop goes on with the Set as it is now.
ListenerSettles(e, i) ==
  /\ i \in DOMAIN running[e]
  /\ LET inv == running[e][i]
         o == Outcome(inv.listener, inv.args)
         rest == [j \in 1..(Len(running[e]) - 1) |->
                    IF j < i THEN running[e][j] ELSE running[e][j + 1]]
         r == IF o.threw
                THEN [status |-> "threw", value |-> o.value, pos |-> inv.pos,
                      listener |-> inv.listener, invoked |-> <<>>]
                ELSE RunListeners(listeners[e][inv.eventType], inv.args, inv.pos, o.value)
         did == [Did("resume", e) EXCEPT !.type = inv.eventType, !.id = inv.id,
                                         !.req = inv.req, !.accepted = TRUE,
                                         !.invoked = WithArg(r.invoked, inv.args)]
     IN IF r.status = "awaiting"
          THEN /\ running' = [running EXCEPT ![e] = Append(rest,
                     [inv EXCEPT !.listener = r.listener, !.pos = r.pos])]
               /\ calls' = NoteInvoked(calls, inv.req, r.invoked)
               /\ last' = did
               /\ UNCHANGED inbox
          ELSE /\ running' = [running EXCEPT ![e] = rest]
               /\ inbox' = PostMessage(inbox, e, "functionResult", ReplyOf(r, inv.id), inv.req)
               /\ calls' = NoteReply(NoteInvoked(calls, inv.req, r.invoked),
                                     inv.req, r.status, ReplyOf(r, inv.id))
               /\ last' = [did EXCEPT !.sent = <<ReplyOf(r, inv.id)>>]
  /\ UNCHANGED <<now, config, listeners, pendingFunctionCalls, timers, left>>

(***************************************************************************)
(* The environment: foreign traffic and redelivery.                        *)
(***************************************************************************)
ForeignTypes == {"broadcast", "functionResult", FunctionKey("f"), "ping", TypeMissing}
ForeignChannels == {ChannelOf(Null), ChannelOf("c1")}

\* Window X posts text to e's window. X sends no complete remote-call
\* envelope (function:<name> or functionResult with an id) that e would
\* accept: forged calls and results are outside this model.
Foreign(e, text) ==
  /\ left.foreign > 0
  /\ LET data == Parse(text)
         accepted == /\ ~data.threw /\ ~data.isNull
                     /\ (Origin(e) = "*" \/ Origin(e) = WindowOrigin("X"))
                     /\ data.channel = Channel(e)
     IN accepted => \/ data.type \in {"broadcast", "ping", TypeMissing}
                    \/ data.id = NoId
  /\ inbox' = [inbox EXCEPT ![e] =
                 Append(@, [data |-> text, origin |-> WindowOrigin("X"), req |-> 0,
                            regd |-> Registered(e, Parse(text).type)])]
  /\ left' = [left EXCEPT !.foreign = @ - 1]
  /\ last' = Did("idle", "A")
  /\ UNCHANGED <<now, config, listeners, pendingFunctionCalls, timers, calls, running>>

\* The texts X posts to e: garbage, the text of null, envelopes of every
\* type on both channels, a functionResult with the id of a pending call,
\* and a function:<name> envelope without id and args.
ForeignTexts(e) ==
  {[Stringify([type |-> "", channel |-> ""] @@ NoFields) EXCEPT !.kind = k] :
      k \in {"garbage", "null"}}
  \cup
  {Stringify([type |-> t, channel |-> ch] @@
             [NoFields EXCEPT !.id = id, !.args = <<Num(5)>>, !.data = Num(7),
                              !.result = Num(99)]) :
      t \in ForeignTypes, ch \in ForeignChannels,
      id \in IF pendingFunctionCalls[e] = <<>> THEN {0}
             ELSE DOMAIN pendingFunctionCalls[e]}
  \cup
  {Stringify([type |-> FunctionKey("f"), channel |-> ch] @@ NoFields) :
      ch \in ForeignChannels}

\* The transport delivers the functionResult event at position i of e's
\* queue a second time.
Duplicate(e, i) ==
  /\ left.dups > 0
  /\ i \in DOMAIN inbox[e]
  /\ inbox[e][i].data.kind = "superjson"
  /\ inbox[e][i].data.type = "functionResult"
  /\ inbox' = [inbox EXCEPT ![e] = Append(@, inbox[e][i])]
  /\ left' = [left EXCEPT !.dups = @ - 1]
  /\ last' = Did("idle", "A")
  /\ UNCHANGED <<now, config, listeners, pendingFunctionCalls, timers, calls, running>>

(***************************************************************************)
(* Specification.                                                          *)
(***************************************************************************)
\* What the applications on A and B and the environment do in one
\* behaviour: a burst of calls, remote calls while the registry changes,
\* broadcasts while the registry changes, foreign traffic, evaluate() beside
\* call(), or calls from an endpoint built with another functionTimeoutMs.
Workload(kind, c, r, b, f, d) ==
  [kind |-> kind, calls |-> c, regs |-> r, broadcasts |-> b, foreign |-> f,
   dups |-> d]

Workloads ==
  {Workload("burst", MaxCalls, 1, 0, 0, MaxDups),
   Workload("registry", 1, MaxRegs, 0, 0, 0),
   Workload("broadcast", 0, MaxRegs, MaxBroadcasts, 0, 0),
   Workload("foreign", 1, 1, 0, MaxForeign, 0),
   Workload("evaluate", MaxCalls, 1, 0, 0, 0),
   Workload("timeout", MaxCalls, 0, 0, 0, 0)}

\* private config: FramecastConfig = {...}, the defaults.
DefaultConfig ==
  [origin |-> Null, channel |-> Null, self |-> Null,
   functionTimeoutMs |-> DefaultFunctionTimeoutMs, supportEvaluate |-> FALSE]

\* The config objects the applications pass to the constructor of e: with
\* functionTimeoutMs 1, 0, undefined or left out, with and without
\* supportEvaluate, with and without the peer's origin.
PartialConfigs(e) ==
  LET plain == {[channel |-> "c1", self |-> e]}
      origins == plain \cup {[origin |-> WindowOrigin(Target(e))] @@ p : p \in plain}
      base == origins \cup {[supportEvaluate |-> TRUE] @@ p : p \in origins}
  IN base \cup {[functionTimeoutMs |-> ms] @@ p : ms \in {1, 0, UndefinedMs}, p \in base}

\* this.config = { ...this.config, ...config }
MergeConfig(partial) == partial @@ DefaultConfig

Configs(e) == {MergeConfig(p) : p \in PartialConfigs(e)}

\* The constructor's on('function:evaluate', async fn => eval(fn)).
ConstructListeners(cfg) ==
  IF cfg.supportEvaluate
    THEN on([broadcast |-> <<>>], EvaluateKey, "evaluate").listeners
    ELSE [broadcast |-> <<>>]

\* constructor(target, config) of A and of B; each workload has the configs
\* it is about.
Init ==
  /\ now = 0
  /\ left \in Workloads
  /\ config \in [Endpoints -> UNION {Configs(e) : e \in Endpoints}]
  /\ \A e \in Endpoints : config[e] \in Configs(e)
  /\ config["A"].origin = Null <=> config["B"].origin = Null
  /\ left.kind # "foreign" => config["A"].origin = Null
  /\ config["B"].functionTimeoutMs = 1 /\ ~config["A"].supportEvaluate
  /\ config["B"].supportEvaluate => left.kind = "evaluate"
  /\ config["A"].functionTimeoutMs # 1 <=> left.kind = "timeout"
  /\ listeners = [e \in Endpoints |-> ConstructListeners(config[e])]
  /\ pendingFunctionCalls = [e \in Endpoints |-> <<>>]
  /\ timers = [e \in Endpoints |-> <<>>]
  /\ calls = <<>>
  /\ inbox = [e \in Endpoints |-> <<>>]
  /\ running = [e \in Endpoints |-> <<>>]
  /\ last = Did("idle", "A")

Next ==
  \/ \E e \in Endpoints, k \in EventKeys : \E l \in ListenersFor(k) : On(e, k, l)
  \/ \E e \in Endpoints, k \in EventKeys : \E l \in ListenersFor(k) : Off(e, k, l)
  \/ \E e \in Endpoints, d \in DataValues : Broadcast(e, d)
  \/ \E e \in Endpoints, n \in FunctionNames, a \in ArgValues : Call(e, n, <<a>>)
  \/ \E e \in Endpoints, fn \in FnStrings, a \in ArgValues : Evaluate(e, fn, <<a>>)
  \/ \E e \in Endpoints : TimerFires(e)
  \/ \E e \in Endpoints : HandlePostedMessage(e)
  \/ \E e \in Endpoints : \E i \in DOMAIN running[e] : ListenerSettles(e, i)
  \/ \E e \in Endpoints : \E text \in ForeignTexts(e) : Foreign(e, text)
  \/ \E e \in Endpoints : \E i \in DOMAIN inbox[e] : Duplicate(e, i)
  \/ Tick

Spec == Init /\ [][Next]_vars

\* The event loop runs: the clock advances, a due timer's callback is run, a
\* queued message event is dispatched. A suspended listener may never settle.
LiveSpec ==
  /\ Spec
  /\ WF_vars(Tick)
  /\ \A e \in Endpoints : WF_vars(TimerFires(e)) /\ WF_vars(HandlePostedMessage(e))

(***************************************************************************)
(* Properties.                                                             *)
(***************************************************************************)
Last(s) == s[Len(s)]

\* Call c is in flight: sent and not settled.
InFlight(c) == calls[c].sent /\ calls[c].state = "pending"

\* The pending-call table of c's endpoint holds the entry call c stored.
HasEntry(c) ==
  \E id \in DOMAIN pendingFunctionCalls[calls[c].owner] :
    pendingFunctionCalls[calls[c].owner][id].call = c

\* The functionResult the peer posted for call c.
ReplyTo(c) == calls[c].replies[1]

\* C1: when the peer's listener returned for call c and the peer's
\* functionResult for c is dispatched at the caller before c's timer fires,
\* c is resolved with the value the listener returned for c's arguments and
\* the pending-call table holds no entry of c.
C1_CallResolvesWithListenerValue ==
  \A c \in DOMAIN calls :
    (calls[c].first = "result" /\ ReplyTo(c).how = "returned") =>
      /\ calls[c].state = "resolved"
      /\ calls[c].value = Outcome(Last(calls[c].invoked), calls[c].args).value
      /\ ~HasEntry(c)

\* C2: a call is settled at most once; what happens first to it, its timer
\* firing or its functionResult arriving, decides its outcome; its timer is
\* cleared and its entry removed exactly once.
C2_SettledOnceByWhatComesFirst ==
  \A c \in DOMAIN calls :
    calls[c].sent =>
      /\ calls[c].settles <= 1 /\ calls[c].cleared <= 1 /\ calls[c].removed <= 1
      /\ calls[c].first = "timeout" =>
           /\ calls[c].state = "rejected" /\ calls[c].value = TimeoutError(c)
           /\ calls[c].settles = 1 /\ calls[c].cleared = 1 /\ calls[c].removed = 1
      /\ calls[c].first = "result" =>
           /\ IF Truthy(ReplyTo(c).message.error)
                THEN calls[c].state = "rejected" /\ calls[c].value = ReplyTo(c).message.error
                ELSE calls[c].state = "resolved" /\ calls[c].value = ReplyTo(c).message.result
           /\ calls[c].settles = 1 /\ calls[c].cleared = 1 /\ calls[c].removed = 1

\* C3: every call that was sent is eventually settled, provided armed timers
\* fire. A call is settled only by its own timer's callback or through the
\* entry it stored, so a call in flight must always have its timer armed or
\* its entry in the table: without both it stays unsettled forever.
C3_EverySentCallSettles ==
  \A c \in DOMAIN calls :
    InFlight(c) => (c \in Range(timers[calls[c].owner]) \/ HasEntry(c))

\* C5: two calls of one endpoint that are in flight together have distinct
\* correlation ids.
C5_InFlightIdsDistinct ==
  \A c, d \in DOMAIN calls :
    (c # d /\ calls[c].owner = calls[d].owner /\ InFlight(c) /\ InFlight(d))
      => calls[c].id # calls[d].id

\* No listener is registered on e for the key.
NoListener(e, key) == key \notin DOMAIN listeners[e] \/ listeners[e][key] = <<>>

\* The task left the registry, the pending calls, the timers, the promises
\* and the suspended handlers alone and only took the event off e's queue.
OnlyDequeued(e) ==
  /\ UNCHANGED <<listeners, pendingFunctionCalls, timers, calls, running>>
  /\ inbox' = [inbox EXCEPT ![e] = Tail(@)]
  /\ last'.invoked = <<>> /\ last'.sent = <<>> /\ last'.settled = <<>>

\* The oldest event queued on e is the peer's functionResult for a call
\* whose timer has already fired.
LateResultQueued(e) ==
  /\ inbox[e] # <<>>
  /\ LET event == Head(inbox[e])
     IN /\ event.data.kind = "superjson"
        /\ event.data.type = "functionResult"
        /\ event.req \in DOMAIN calls
        /\ calls[event.req].owner = e
        /\ calls[event.req].first = "timeout"

\* C4: a call whose timer fires before its functionResult arrives is
\* rejected with the timeout error naming its function, and dispatching its
\* functionResult afterwards settles nothing, invokes nothing, sends nothing
\* and leaves the pending-call table as it was.
C4_TimeoutThenLateResultDropped ==
  /\ [](\A c \in DOMAIN calls :
          calls[c].first = "timeout" =>
            /\ calls[c].state = "rejected"
            /\ calls[c].value =
                 Err(calls[c].functionName \o " timed out after "
                     \o ToString(config[calls[c].owner].functionTimeoutMs) \o "ms"))
  /\ [][\A e \in Endpoints :
          (HandlePostedMessage(e) /\ LateResultQueued(e)) => OnlyDequeued(e)]_vars

C4_Witness ==
  /\ last.op = "message" /\ last.type = "functionResult" /\ last.accepted
  /\ last.req \in DOMAIN calls
  /\ calls[last.req].owner = last.e
  /\ calls[last.req].first = "timeout"
  /\ calls[last.req].state = "rejected"

\* C6: an accepted function:<name> envelope for a key without listener makes
\* the responder invoke nothing and post one functionResult with the
\* request's id and the error naming the key, and the caller's call is
\* rejected with that error.
C6_NoListenerRejectsCall ==
  /\ (/\ last.op = "message" /\ last.accepted /\ StartsWithFunction(last.type)
      /\ NoListener(last.e, last.type))
       => /\ last.invoked = <<>>
          /\ last.sent = <<[NoFields EXCEPT !.id = last.id,
                              !.error = Err("No listeners for " \o last.type)]>>
  /\ \A c \in DOMAIN calls :
       (calls[c].first = "result" /\ ReplyTo(c).how = "nolistener") =>
         /\ calls[c].state = "rejected"
         /\ calls[c].value = Err("No listeners for function:" \o calls[c].functionName)

\* C7: when the listener raises while handling call c, the responder posts a
\* functionResult with c's id and the raised value as error, nothing is
\* raised out of the task, and the caller's call is rejected.
C7_RaisingListenerRejectsCall ==
  /\ \A c \in DOMAIN calls :
       (calls[c].replies # <<>> /\ ReplyTo(c).how = "threw") =>
         /\ ReplyTo(c).message =
              [NoFields EXCEPT !.id = calls[c].id,
                 !.error = Outcome(Last(calls[c].invoked), calls[c].args).value]
         /\ (calls[c].first = "result" => calls[c].state = "rejected")
  /\ last.op \in {"message", "resume"} /\ StartsWithFunction(last.type) => ~last.threw

\* C8: a function:<name> key never has more than one listener; on() for a
\* function key that has one raises and changes nothing; every other on()
\* registers the listener (a function key emptied by off, a broadcast key
\* with listeners); off() removes the listener.
C8_OneListenerPerFunction ==
  /\ [](\A e \in Endpoints : \A k \in DOMAIN listeners[e] :
          StartsWithFunction(k) => Len(listeners[e][k]) <= 1)
  /\ [][\A e \in Endpoints, k \in {"broadcast"} \cup FunctionKeys :
          \A l \in ListenersFor(k) :
            /\ On(e, k, l) =>
                 IF StartsWithFunction(k) /\ ~NoListener(e, k)
                   THEN last'.threw /\ listeners' = listeners
                   ELSE ~last'.threw /\ l \in Range(listeners'[e][k])
            /\ Off(e, k, l) => l \notin Range(listeners'[e][k])]_vars

C8_Witness ==
  /\ last.op = "on" /\ last.threw /\ StartsWithFunction(last.type)
  /\ Len(listeners[last.e][last.type]) = 1

\* The envelope of the event is not addressed to e: its channel key is not
\* e's, or e filters by origin and the sender's origin is another.
Mismatched(e, event) ==
  LET data == Parse(event.data)
  IN /\ ~data.threw /\ ~data.isNull
     /\ \/ data.channel # ChannelOf(config[e].channel)
        \/ config[e].origin # Null /\ event.origin # config[e].origin

\* C9: dispatching an envelope with another channel key, or from another
\* origin than the configured one, invokes no listener, posts no reply and
\* settles no pending call, whatever its type.
C9_MismatchedEnvelopeIgnored ==
  [][\A e \in Endpoints :
       (HandlePostedMessage(e) /\ Mismatched(e, Head(inbox[e]))) => OnlyDequeued(e)]_vars

C9_Witness ==
  /\ last.op = "message" /\ ~last.accepted /\ last.type = "functionResult"
  /\ last.id \in DOMAIN pendingFunctionCalls[last.e]

\* C10: dispatching an accepted broadcast invokes every broadcast listener
\* registered on the endpoint once with the envelope's data, in
\* registration order.
C10_BroadcastInvokesAllInOrder ==
  (last.op = "message" /\ last.accepted /\ last.type = "broadcast") =>
    last.invoked =
      WithArg(IF "broadcast" \in DOMAIN listeners[last.e]
                THEN listeners[last.e]["broadcast"] ELSE <<>>,
              last.data)

\* The latest task dispatched an accepted broadcast envelope.
BroadcastDispatched == last.op = "message" /\ last.accepted /\ last.type = "broadcast"

\* The envelope the latest task dispatched was posted by the peer endpoint.
FromPeer == last.from = WindowOrigin(Target(last.e))

\* The broadcast listeners registered on e, in registration order.
BroadcastSet(e) ==
  IF "broadcast" \in DOMAIN listeners[e] THEN listeners[e]["broadcast"] ELSE <<>>

\* C11: a broadcast is received only by the listeners that were registered
\* on the receiving endpoint when broadcast(data) was called: not by one
\* registered after the call, not by one removed before it.
C11_OnlyListenersRegisteredAtBroadcast ==
  (BroadcastDispatched /\ FromPeer) =>
    \A i \in DOMAIN last.invoked : last.invoked[i].listener \in Range(last.regd)

\* C12: while one broadcast is dispatched, every listener registered after a
\* listener that raises is still invoked with the broadcast's data.
C12_RaisingListenerDoesNotStopOthers ==
  BroadcastDispatched =>
    \A i, j \in DOMAIN BroadcastSet(last.e) :
      (i < j /\ Throws(BroadcastSet(last.e)[i])) =>
        \E k \in DOMAIN last.invoked :
          last.invoked[k] = [listener |-> BroadcastSet(last.e)[j], arg |-> last.data]

\* The latest task dispatched a message that is no well-formed envelope: no
\* superjson text, no object, no type, or a remote-call envelope without id.
MalformedDispatched ==
  /\ last.op = "message"
  /\ \/ last.type = TypeMissing
     \/ /\ StartsWithFunction(last.type) \/ last.type = "functionResult"
        /\ last.id = NoId

\* C13: dispatching a message that does not decode, or decodes to no
\* well-formed envelope, invokes no listener, posts no reply, settles no call
\* and raises nothing.
C13_MalformedMessageDropped ==
  MalformedDispatched =>
    last.invoked = <<>> /\ last.sent = <<>> /\ last.settled = <<>> /\ ~last.threw

\* C14: a call on an endpoint whose functionTimeoutMs is 0 or undefined is
\* rejected with the error naming config.functionTimeoutMs; no envelope of it
\* is posted, no timer armed and no entry stored.
C14_CallWithoutTimeoutFails ==
  \A c \in DOMAIN calls :
    config[calls[c].owner].functionTimeoutMs \in {0, UndefinedMs} =>
      /\ calls[c].state = "rejected"
      /\ calls[c].value =
           Err("Framecast.call() requires a config.functionTimeoutMs to be set")
      /\ c \notin Range(timers[calls[c].owner])
      /\ pendingFunctionCalls[calls[c].owner] = <<>>
      /\ \A e \in Endpoints : \A i \in DOMAIN inbox[e] : inbox[e][i].req # c

C14_Witness ==
  /\ Len(calls) >= 2
  /\ config["A"].functionTimeoutMs = UndefinedMs
  /\ calls[2].state = "rejected" /\ calls[2].functionName = "f"

\* C15: evaluate() is a call of the function "evaluate": answered by a peer
\* built without supportEvaluate that has no listener for function:evaluate,
\* it is rejected with the no-listener error; a peer built with
\* supportEvaluate has the evaluate listener registered from construction
\* on, and on('function:evaluate', f) on it raises.
C15_EvaluateIsCallOfEvaluate ==
  /\ \A c \in DOMAIN calls :
       (/\ calls[c].functionName = "evaluate"
        /\ ~config[Target(calls[c].owner)].supportEvaluate
        /\ calls[c].first = "result" /\ ReplyTo(c).how = "nolistener")
         => /\ calls[c].state = "rejected"
            /\ calls[c].value = Err("No listeners for function:evaluate")
  /\ \A e \in Endpoints :
       config[e].supportEvaluate =>
         EvaluateKey \in DOMAIN listeners[e] /\ listeners[e][EvaluateKey] = <<"evaluate">>
  /\ (last.op = "on" /\ last.type = EvaluateKey /\ config[last.e].supportEvaluate)
       => last.threw

\* The envelope of the event is addressed to e and its type is none of
\* broadcast, functionResult, function:<name>.
UnknownType(e, event) ==
  LET data == Parse(event.data)
  IN /\ ~data.threw /\ ~data.isNull
     /\ data.channel = ChannelOf(config[e].channel)
     /\ config[e].origin = Null \/ event.origin = config[e].origin
     /\ data.type \notin {"broadcast", "functionResult", EvaluateKey} \cup FunctionKeys

\* C16: dispatching an accepted envelope of an unknown type invokes no
\* listener, posts no reply and leaves the registry, the pending-call table,
\* the timers and the promises as they were.
C16_UnknownTypeIgnored ==
  [][\A e \in Endpoints :
       (HandlePostedMessage(e) /\ UnknownType(e, Head(inbox[e]))) => OnlyDequeued(e)]_vars

C16_Witness ==
  last.op = "message" /\ last.accepted /\ last.type = "ping" /\ listeners[last.e] # [broadcast |-> <<>>]

\* C17: for the function:<name> envelope of call c the responder invokes one
\* listener, once, and the result it replies with is that listener's return
\* value, whatever off and on do to the key while the listener is suspended.
C17_ExactlyOneListenerInvoked ==
  \A c \in DOMAIN calls :
    /\ Len(calls[c].invoked) <= 1
    /\ (calls[c].replies # <<>> /\ ReplyTo(c).how = "returned") =>
         /\ Len(calls[c].invoked) = 1
         /\ ReplyTo(c).message.result = Outcome(calls[c].invoked[1], calls[c].args).value

\* C18: the timer of a call is cleared, its entry removed and its promise
\* settled only by what happens to that call itself, its own timer firing or
\* its own functionResult arriving, never by the settling of another call.
C18_SettlingAffectsOnlyThatCall ==
  \A c \in DOMAIN calls :
    (/\ calls[c].sent
     /\ calls[c].cleared > 0 \/ calls[c].removed > 0 \/ calls[c].state # "pending")
      => calls[c].first # "none"

\* C19: the pending-call table of an endpoint holds the entry of a call
\* exactly while that call is in flight, each entry holds the armed timer of
\* its own call, and the table is empty when no call is in flight.
C19_PendingTableIsInFlightCalls ==
  /\ \A c \in DOMAIN calls : calls[c].sent => (HasEntry(c) <=> InFlight(c))
  /\ \A e \in Endpoints : \A id \in DOMAIN pendingFunctionCalls[e] :
       /\ pendingFunctionCalls[e][id].timeout = pendingFunctionCalls[e][id].call
       /\ pendingFunctionCalls[e][id].timeout \in Range(timers[e])
  /\ (\A c \in DOMAIN calls : ~InFlight(c)) =>
       \A e \in Endpoints : pendingFunctionCalls[e] = <<>>

\* The responder has dispatched the function:<name> envelope of call c.
Dispatched(c) == calls[c].invoked # <<>> \/ calls[c].replies # <<>>

\* The handling of call c at the responder is suspended on a listener.
Suspended(c) ==
  \E e \in Endpoints : \E i \in DOMAIN running[e] : running[e][i].req = c

\* C20: for the function:<name> envelope of a call the responder posts at
\* most one functionResult, exactly one once its handling has ended (no
\* listener, listener returned, listener raised), and it carries the id of
\* the request, in whatever order suspended handlings complete.
C20_OneResultPerRequest ==
  \A c \in DOMAIN calls :
    /\ Len(calls[c].replies) <= 1
    /\ calls[c].replies # <<>> => ReplyTo(c).message.id = calls[c].id
    /\ (Dispatched(c) /\ ~Suspended(c)) => Len(calls[c].replies) = 1

C20_Witness ==
  /\ Len(calls) >= 2
  /\ last.op = "resume" /\ last.req = 1 /\ last.sent # <<>>
  /\ calls[1].invoked = <<"slow">> /\ calls[2].invoked = <<"slow">>
  /\ calls[2].replies # <<>> /\ calls[1].id # calls[2].id

====
